---- MODULE Spec2Model ----
(***************************************************************************)
(* MIDI relay controller (src/main.c): four relays on GPIO 16-19 driven by *)
(* set_relay, and process_midi_message, which maps a 3-byte MIDI message   *)
(* to set_relay calls.                                                     *)
(*                                                                         *)
(* The program state is relay_states (the static array) and gpio (the      *)
(* output level of the four pins).  calls, writes and log are traces of    *)
(* what the code did: every set_relay invocation, every gpio_put and every *)
(* printf line.  call is the operation performed last and prior_states the *)
(* relay array as it was when that operation started.                      *)
(*                                                                         *)
(* The loop of main is modelled step by step (pc): tud_task, the USB       *)
(* check, the Bluetooth check, cyw43_arch_poll, sleep_ms.  The transports  *)
(* are the environment: usb_mounted and ble_connected are what             *)
(* tud_midi_mounted() and ble_midi_server_is_connected() answer, and       *)
(* usb_pending and ble_pending count the packets and frames waiting to be  *)
(* read; what a packet or frame holds is chosen when it is read.  Within   *)
(* the loop the traces cover the current iteration: iter_start is the      *)
(* relay array at its start, dispatched the messages handed to             *)
(* process_midi_message in it, at_usb and at_ble what the two checks saw.  *)
(***************************************************************************)
EXTENDS Integers, Sequences, FiniteSets

VARIABLES relay_states, gpio, calls, writes, log, call, prior_states,
          pc, usb_mounted, ble_connected, usb_pending, ble_pending,
          nread, ble_packet, iter_start, dispatched, at_usb, at_ble

\* the variables of the loop of main
loop_vars == <<pc, usb_mounted, ble_connected, usb_pending, ble_pending,
               nread, ble_packet, iter_start, dispatched, at_usb, at_ble>>

vars == <<relay_states, gpio, calls, writes, log, call, prior_states, loop_vars>>

----------------------------------------------------------------------------
(* Program constants                                                       *)

MIDI_NOTE_OFF == 128
MIDI_NOTE_ON == 144
MIDI_CC == 176
MIDI_PROGRAM_CHANGE == 192

RELAY_1_PIN == 16
RELAY_2_PIN == 17
RELAY_3_PIN == 18
RELAY_4_PIN == 19

RELAY_1_NOTE == 60
RELAY_2_NOTE == 61
RELAY_3_NOTE == 62
RELAY_4_NOTE == 63

CC_ON_THRESHOLD == 64

Pins == {RELAY_1_PIN, RELAY_2_PIN, RELAY_3_PIN, RELAY_4_PIN}

----------------------------------------------------------------------------
(* Bounds of the model                                                     *)

\* set_relay is called directly with relay numbers -1..MaxRelayArg
MaxRelayArg == 5
\* at most MaxCalls direct set_relay calls are traced in one run
MaxCalls == 3
\* data1 takes the values 0..MaxLowData1 besides the note numbers around 60..63
MaxLowData1 == 9
\* status bytes are tried on the channels 0..MaxChannel and on channel 15
MaxChannel == 1

\* at most MaxQueue packets (frames) wait on a transport
MaxQueue == 2

Byte == 0..255

RelayNumArgs == -1..MaxRelayArg

\* status bytes tried: each of the 16 high nibbles (0x0_ .. 0xF_) on the channels tried
StatusValues == {s \in Byte : (s % 16) \in ((0..MaxChannel) \cup {15})}

Data1Values ==
    (0..MaxLowData1) \cup ((RELAY_1_NOTE - 1)..(RELAY_4_NOTE + 1)) \cup {127, 128, 255}

Data2Values == {0, 1, 63, 64, 127, 255}

----------------------------------------------------------------------------
(* Traces                                                                  *)

NoCall == [fn |-> "none"]

\* one printf line: its format, and the source and channel it prints (if any)
Line(fmt, source, ch) == [fmt |-> fmt, source |-> source, ch |-> ch]

\* the machine a handler runs on: the program state and the traces
Machine(rs, g, c, w, l) ==
    [relay_states |-> rs, gpio |-> g, calls |-> c, writes |-> w, log |-> l]

AllOff == [i \in 0..3 |-> FALSE]

----------------------------------------------------------------------------
(* set_relay                                                               *)

\* RelayPin with the pins of relays 3 and 4 exchanged
RelayPin_Swapped(relay_num) ==
    CASE relay_num = 1 -> RELAY_1_PIN
      [] relay_num = 2 -> RELAY_2_PIN
      [] relay_num = 3 -> RELAY_4_PIN
      [] relay_num = 4 -> RELAY_3_PIN

\* the switch of set_relay: the pin written for a relay number in 1..4
RelayPin(relay_num) ==
    CASE relay_num = 1 -> RELAY_1_PIN
      [] relay_num = 2 -> RELAY_2_PIN
      [] relay_num = 3 -> RELAY_3_PIN
      [] relay_num = 4 -> RELAY_4_PIN

gpio_put(m, pin, value) ==
    [m EXCEPT !.gpio = [@ EXCEPT ![pin] = value],
              !.writes = Append(@, <<pin, value>>)]

print_relay_states(m) ==
    [m EXCEPT !.log = Append(@, Line("Relay States", "", 0))]

\* set_relay that skips the write when the relay already has the value
set_relay_SkipRedundant(m, relay_num, state) ==
    LET entered == [m EXCEPT !.calls = Append(@, <<relay_num, state>>)]
    IN  IF relay_num < 1 \/ relay_num > 4
        THEN entered
        ELSE IF entered.relay_states[relay_num - 1] = state
        THEN print_relay_states([entered EXCEPT !.log = Append(@, Line("Relay", "", 0))])
        ELSE LET stored == [entered EXCEPT
                               !.relay_states = [@ EXCEPT ![relay_num - 1] = state]]
                 put == gpio_put(stored, RelayPin(relay_num), state)
                 said == [put EXCEPT !.log = Append(@, Line("Relay", "", 0))]
             IN  print_relay_states(said)

\* set_relay that clamps an out-of-range relay number into 1..4 instead of returning
set_relay_Clamped(m, relay_num, state) ==
    LET entered == [m EXCEPT !.calls = Append(@, <<relay_num, state>>)]
        n == IF relay_num < 1 THEN 1 ELSE IF relay_num > 4 THEN 4 ELSE relay_num
        stored == [entered EXCEPT !.relay_states = [@ EXCEPT ![n - 1] = state]]
        put == gpio_put(stored, RelayPin(n), state)
        said == [put EXCEPT !.log = Append(@, Line("Relay", "", 0))]
    IN  print_relay_states(said)

\* set_relay that reports an out-of-range relay number before returning
set_relay_LogInvalid(m, relay_num, state) ==
    LET entered == [m EXCEPT !.calls = Append(@, <<relay_num, state>>)]
    IN  IF relay_num < 1 \/ relay_num > 4
        THEN [entered EXCEPT !.log = Append(@, Line("Invalid relay", "", 0))]
        ELSE LET stored == [entered EXCEPT
                               !.relay_states = [@ EXCEPT ![relay_num - 1] = state]]
                 put == gpio_put(stored, RelayPin(relay_num), state)
                 said == [put EXCEPT !.log = Append(@, Line("Relay", "", 0))]
             IN  print_relay_states(said)

\* set_relay driving the pin with the inverse of the state
set_relay_ActiveLow(m, relay_num, state) ==
    LET entered == [m EXCEPT !.calls = Append(@, <<relay_num, state>>)]
    IN  IF relay_num < 1 \/ relay_num > 4
        THEN entered
        ELSE LET stored == [entered EXCEPT
                               !.relay_states = [@ EXCEPT ![relay_num - 1] = state]]
                 put == gpio_put(stored, RelayPin(relay_num), ~state)
                 said == [put EXCEPT !.log = Append(@, Line("Relay", "", 0))]
             IN  print_relay_states(said)

set_relay(m, relay_num, state) ==
    LET entered == [m EXCEPT !.calls = Append(@, <<relay_num, state>>)]
    IN  IF relay_num < 1 \/ relay_num > 4
        THEN entered
        ELSE LET stored == [entered EXCEPT
                               !.relay_states = [@ EXCEPT ![relay_num - 1] = state]]
                 put == gpio_put(stored, RelayPin(relay_num), state)
                 said == [put EXCEPT !.log = Append(@, Line("Relay", "", 0))]
             IN  print_relay_states(said)

\* init_relays: the four pins are made outputs and driven low
init_relays(g) ==
    [p \in Pins |-> IF p \in {RELAY_1_PIN, RELAY_2_PIN, RELAY_3_PIN, RELAY_4_PIN}
                    THEN FALSE ELSE g[p]]

----------------------------------------------------------------------------
(* process_midi_message                                                    *)

\* status & 0xE0: a mask one bit short
HighNibbleMask_E0(b) == (b \div 32) * 32

\* the status byte compared unmasked
HighNibbleMask_None(b) == b

\* status & 0xF0 and status & 0x0F on a byte
HighNibbleMask(b) == (b \div 16) * 16
LowNibbleMask(b) == b % 16

SourceName(from_bluetooth) == IF from_bluetooth THEN "BT" ELSE "USB"

Say(m, fmt, source, ch) == [m EXCEPT !.log = Append(@, Line(fmt, source, ch))]

\* NoteOnSwitch with note 61 sent to relay 3 and note 62 to relay 2
NoteOnSwitch_Crossed(m, data1) ==
    CASE data1 = RELAY_1_NOTE -> set_relay(m, 1, TRUE)
      [] data1 = RELAY_2_NOTE -> set_relay(m, 3, TRUE)
      [] data1 = RELAY_3_NOTE -> set_relay(m, 2, TRUE)
      [] data1 = RELAY_4_NOTE -> set_relay(m, 4, TRUE)
      [] OTHER -> Say(m, "Note not mapped to relay", "", 0)

\* switch (data1) of the Note On branch with velocity > 0
NoteOnSwitch(m, data1) ==
    CASE data1 = RELAY_1_NOTE -> set_relay(m, 1, TRUE)
      [] data1 = RELAY_2_NOTE -> set_relay(m, 2, TRUE)
      [] data1 = RELAY_3_NOTE -> set_relay(m, 3, TRUE)
      [] data1 = RELAY_4_NOTE -> set_relay(m, 4, TRUE)
      [] OTHER -> Say(m, "Note not mapped to relay", "", 0)

\* the velocity-0 branch doing nothing
NoteOnZeroSwitch_Ignored(m, data1) == m

\* switch (data1) of the Note On branch with velocity 0
NoteOnZeroSwitch(m, data1) ==
    CASE data1 = RELAY_1_NOTE -> set_relay(m, 1, FALSE)
      [] data1 = RELAY_2_NOTE -> set_relay(m, 2, FALSE)
      [] data1 = RELAY_3_NOTE -> set_relay(m, 3, FALSE)
      [] data1 = RELAY_4_NOTE -> set_relay(m, 4, FALSE)
      [] OTHER -> m

\* switch (data1) of the Note Off case
NoteOffSwitch(m, data1) ==
    CASE data1 = RELAY_1_NOTE -> set_relay(m, 1, FALSE)
      [] data1 = RELAY_2_NOTE -> set_relay(m, 2, FALSE)
      [] data1 = RELAY_3_NOTE -> set_relay(m, 3, FALSE)
      [] data1 = RELAY_4_NOTE -> set_relay(m, 4, FALSE)
      [] OTHER -> m

NoteOnCase(m, source, channel, data1, data2) ==
    IF data2 > 0
    THEN NoteOnSwitch(Say(m, "Note On", source, channel + 1), data1)
    ELSE NoteOnZeroSwitch(Say(m, "Note Off", source, channel + 1), data1)

NoteOffCase(m, source, channel, data1, data2) ==
    NoteOffSwitch(Say(m, "Note Off Vel", source, channel + 1), data1)

\* ControlChangeCase with the test data2 > 64
ControlChangeCase_Above(m, source, channel, data1, data2) ==
    LET said == Say(m, "CC", source, channel + 1)
    IN  IF data1 >= 1 /\ data1 <= 4
        THEN set_relay(said, data1, data2 > CC_ON_THRESHOLD)
        ELSE said

\* ControlChangeCase with the range test data1 >= 0
ControlChangeCase_FromZero(m, source, channel, data1, data2) ==
    LET said == Say(m, "CC", source, channel + 1)
    IN  IF data1 >= 0 /\ data1 <= 4
        THEN set_relay(said, data1, data2 >= CC_ON_THRESHOLD)
        ELSE said

ControlChangeCase(m, source, channel, data1, data2) ==
    LET said == Say(m, "CC", source, channel + 1)
    IN  IF data1 >= 1 /\ data1 <= 4
        THEN set_relay(said, data1, data2 >= CC_ON_THRESHOLD)
        ELSE said

\* the four set_relay(n, false) calls both branches of Program Change start with
AllRelaysOff(m) ==
    set_relay(set_relay(set_relay(set_relay(m, 1, FALSE), 2, FALSE), 3, FALSE), 4, FALSE)

\* ProgramChangeCase that turns the selected relay on without the four off calls
ProgramChangeCase_NoClear(m, source, channel, data1, data2) ==
    LET said == Say(m, "Program", source, channel + 1)
    IN  IF data1 >= 0 /\ data1 <= 3
        THEN set_relay(said, data1 + 1, TRUE)
        ELSE AllRelaysOff(said)

\* ProgramChangeCase that ignores program numbers above 3
ProgramChangeCase_IgnoreOther(m, source, channel, data1, data2) ==
    LET said == Say(m, "Program", source, channel + 1)
    IN  IF data1 >= 0 /\ data1 <= 3
        THEN set_relay(AllRelaysOff(said), data1 + 1, TRUE)
        ELSE said

\* ProgramChangeCase that turns off only the three relays not selected
ProgramChangeCase_SkipSelected(m, source, channel, data1, data2) ==
    LET said == Say(m, "Program", source, channel + 1)
        Off(mm, n) == IF n = data1 + 1 THEN mm ELSE set_relay(mm, n, FALSE)
    IN  IF data1 >= 0 /\ data1 <= 3
        THEN set_relay(Off(Off(Off(Off(said, 1), 2), 3), 4), data1 + 1, TRUE)
        ELSE AllRelaysOff(said)

ProgramChangeCase(m, source, channel, data1, data2) ==
    LET said == Say(m, "Program", source, channel + 1)
    IN  IF data1 >= 0 /\ data1 <= 3
        THEN set_relay(AllRelaysOff(said), data1 + 1, TRUE)
        ELSE AllRelaysOff(said)

process_midi_message(m, status, data1, data2, from_bluetooth) ==
    LET source == SourceName(from_bluetooth)
        msg_type == HighNibbleMask(status)
        channel == LowNibbleMask(status)
    IN  CASE msg_type = MIDI_NOTE_ON -> NoteOnCase(m, source, channel, data1, data2)
          [] msg_type = MIDI_NOTE_OFF -> NoteOffCase(m, source, channel, data1, data2)
          [] msg_type = MIDI_CC -> ControlChangeCase(m, source, channel, data1, data2)
          [] msg_type = MIDI_PROGRAM_CHANGE ->
                 ProgramChangeCase(m, source, channel, data1, data2)
          [] OTHER -> Say(m, "Unknown MIDI", source, 0)

----------------------------------------------------------------------------
(* The loop of main                                                        *)

\* the USB-MIDI packets tried, <<packet[0], packet[1], packet[2], packet[3]>>:
\* CC 1 = 127, Program 2 on channel 2, Note On of the unmapped note 66, and a
\* real-time byte no case handles, and Note On of note 61
UsbPackets ==
    {<<11, 176, 1, 127>>, <<12, 193, 2, 0>>, <<9, 144, 61, 100>>, <<9, 144, 66, 100>>,
     <<15, 248, 0, 0>>}

\* the Bluetooth frames tried, of 1, 2 and 3 payload bytes: a lone Note On status,
\* Program 3, and CC 1 = 0
BleFrames == {<<144>>, <<192, 3>>, <<176, 1, 0>>}

\* what the uninitialised ble_packet may hold before the read
StaleBuffers == {<<170, 170, 170>>, <<144, 60, 127>>}

NoBuffer == <<0, 0, 0>>

\* what a check saw: whether the transport was mounted (connected) and how many
\* packets (frames) waited
NotChecked == [checked |-> FALSE, ready |-> FALSE, pending |-> 0]

Checked(ready, pending) == [checked |-> TRUE, ready |-> ready, pending |-> pending]

\* a packet read whether or not the device is mounted
usb_available_IgnoreMount(mounted, pending) == pending > 0

\* tud_midi_mounted() && tud_midi_packet_read(packet): a packet is read when the
\* device is mounted and one waits
usb_available(mounted, pending) == mounted /\ pending > 0

\* every waiting packet taken by the USB check
usb_consumed_All(pending) == pending

\* the packets one tud_midi_packet_read call takes from those waiting
usb_consumed(pending) == 1

\* the Bluetooth check never reading a frame
ble_available_Never(connected, pending) == FALSE

\* ble_midi_server_is_connected() and nread > 0: a frame is read when a session
\* is connected and one waits
ble_available(connected, pending) == connected /\ pending > 0

\* the frames one ble_midi_server_stream_read call takes from those waiting
ble_consumed(pending) == 1

\* ble_packet after ble_midi_server_stream_read: the frame's bytes, then what
\* the buffer held
stream_read(frame, buffer) ==
    [i \in 1..3 |-> IF i <= Len(frame) THEN frame[i] ELSE buffer[i]]

\* the three bytes of ble_packet handed on whatever nread is
ble_tuple_Stale(n, buffer) == <<buffer[1], buffer[2], buffer[3]>>

\* the bytes handed to process_midi_message for a Bluetooth frame
ble_tuple(n, buffer) ==
    <<buffer[1], IF n >= 2 THEN buffer[2] ELSE 0, IF n >= 3 THEN buffer[3] ELSE 0>>

\* a dispatch whose set_relay calls start before those of the event before it
\* have ended: its first call overtakes the last call made so far
dispatch_Overlapping(m, status, data1, data2, from_bluetooth) ==
    LET r == process_midi_message(m, status, data1, data2, from_bluetooth)
        old == Len(m.calls)
    IN  IF old >= 1 /\ Len(r.calls) > old
        THEN [r EXCEPT !.calls = [i \in 1..Len(r.calls) |->
                                     IF i = old THEN r.calls[old + 1]
                                     ELSE IF i = old + 1 THEN r.calls[old]
                                     ELSE r.calls[i]]]
        ELSE r

\* the call process_midi_message(...) of the loop: it returns before the loop goes on
dispatch(m, status, data1, data2, from_bluetooth) ==
    process_midi_message(m, status, data1, data2, from_bluetooth)

\* a loop body with the Bluetooth check ahead of the USB check
NextPosition_BleFirst(position) ==
    CASE position = "tud_task" -> "ble"
      [] position = "ble" -> "usb"
      [] position = "usb" -> "cyw43_arch_poll"
      [] position = "cyw43_arch_poll" -> "sleep_ms"
      [] position = "sleep_ms" -> "tud_task"

\* a loop body that is left after sleep_ms
NextPosition_Exit(position) ==
    CASE position = "tud_task" -> "usb"
      [] position = "usb" -> "ble"
      [] position = "ble" -> "cyw43_arch_poll"
      [] position = "cyw43_arch_poll" -> "sleep_ms"
      [] position = "sleep_ms" -> "return"

\* the position after each step of the loop body; while (1) goes round
NextPosition(position) ==
    CASE position = "tud_task" -> "usb"
      [] position = "usb" -> "ble"
      [] position = "ble" -> "cyw43_arch_poll"
      [] position = "cyw43_arch_poll" -> "sleep_ms"
      [] position = "sleep_ms" -> "tud_task"

\* the record kept of a dispatched message: its bytes and the part of the
\* iteration's set_relay trace made while it was processed
Dispatched(status, data1, data2, from_bluetooth, before, after) ==
    [status |-> status, data1 |-> data1, data2 |-> data2,
     from_bluetooth |-> from_bluetooth,
     first |-> Len(before.calls) + 1, last |-> Len(after.calls)]

Now == Machine(relay_states, gpio, calls, writes, log)

Becomes(m) ==
    /\ relay_states' = m.relay_states
    /\ gpio' = m.gpio
    /\ calls' = m.calls
    /\ writes' = m.writes
    /\ log' = m.log

\* tud_task(): a new iteration starts; the USB stack may mount or unmount the
\* device and take in packets
TudTask ==
    /\ pc = "tud_task"
    /\ pc' = NextPosition(pc)
    /\ usb_mounted' \in BOOLEAN
    /\ usb_pending' \in usb_pending..MaxQueue
    /\ iter_start' = relay_states
    /\ calls' = <<>>
    /\ writes' = <<>>
    /\ log' = <<>>
    /\ dispatched' = <<>>
    /\ at_usb' = NotChecked
    /\ at_ble' = NotChecked
    /\ nread' = 0
    /\ ble_packet' = NoBuffer
    /\ UNCHANGED <<relay_states, gpio, call, prior_states, ble_connected, ble_pending>>

\* the USB check with a packet read and processed
UsbRead ==
    /\ pc = "usb"
    /\ usb_available(usb_mounted, usb_pending)
    /\ pc' = NextPosition(pc)
    /\ at_usb' = Checked(usb_mounted, usb_pending)
    /\ usb_pending' = usb_pending - usb_consumed(usb_pending)
    /\ \E packet \in UsbPackets :
          LET m == dispatch(Now, packet[2], packet[3], packet[4], FALSE)
          IN  /\ Becomes(m)
              /\ dispatched' = Append(dispatched,
                     Dispatched(packet[2], packet[3], packet[4], FALSE, Now, m))
    /\ UNCHANGED <<call, prior_states, usb_mounted, ble_connected, ble_pending,
                   nread, ble_packet, iter_start, at_ble>>

\* the USB check with nothing read: not mounted, or no packet
UsbSkip ==
    /\ pc = "usb"
    /\ ~usb_available(usb_mounted, usb_pending)
    /\ pc' = NextPosition(pc)
    /\ at_usb' = Checked(usb_mounted, usb_pending)
    /\ UNCHANGED <<relay_states, gpio, calls, writes, log, call, prior_states,
                   usb_mounted, ble_connected, usb_pending, ble_pending,
                   nread, ble_packet, iter_start, dispatched, at_ble>>

\* the Bluetooth check with a frame read, padded and processed
BleRead ==
    /\ pc = "ble"
    /\ ble_available(ble_connected, ble_pending)
    /\ pc' = NextPosition(pc)
    /\ at_ble' = Checked(ble_connected, ble_pending)
    /\ ble_pending' = ble_pending - ble_consumed(ble_pending)
    /\ \E frame \in BleFrames, stale \in StaleBuffers :
          LET buffer == stream_read(frame, stale)
              t == ble_tuple(Len(frame), buffer)
              m == dispatch(Now, t[1], t[2], t[3], TRUE)
          IN  /\ nread' = Len(frame)
              /\ ble_packet' = buffer
              /\ Becomes(m)
              /\ dispatched' = Append(dispatched,
                     Dispatched(t[1], t[2], t[3], TRUE, Now, m))
    /\ UNCHANGED <<call, prior_states, usb_mounted, ble_connected, usb_pending,
                   iter_start, at_usb>>

\* the Bluetooth check with nothing processed: no session (no read at all), or a
\* read that returns 0 and leaves ble_packet as it was
BleSkip ==
    /\ pc = "ble"
    /\ ~ble_available(ble_connected, ble_pending)
    /\ pc' = NextPosition(pc)
    /\ at_ble' = Checked(ble_connected, ble_pending)
    /\ nread' = 0
    /\ IF ble_connected
       THEN ble_packet' \in StaleBuffers
       ELSE ble_packet' = ble_packet
    /\ UNCHANGED <<relay_states, gpio, calls, writes, log, call, prior_states,
                   usb_mounted, ble_connected, usb_pending, ble_pending,
                   iter_start, dispatched, at_usb>>

\* cyw43_arch_poll(): the wireless stack may open or close the session and take
\* in frames
Cyw43ArchPoll ==
    /\ pc = "cyw43_arch_poll"
    /\ pc' = NextPosition(pc)
    /\ ble_connected' \in BOOLEAN
    /\ ble_pending' \in ble_pending..MaxQueue
    /\ UNCHANGED <<relay_states, gpio, calls, writes, log, call, prior_states,
                   usb_mounted, usb_pending, nread, ble_packet, iter_start,
                   dispatched, at_usb, at_ble>>

\* sleep_ms(1): the iteration ends
SleepMs ==
    /\ pc = "sleep_ms"
    /\ pc' = NextPosition(pc)
    /\ UNCHANGED <<relay_states, gpio, calls, writes, log, call, prior_states,
                   usb_mounted, ble_connected, usb_pending, ble_pending,
                   nread, ble_packet, iter_start, dispatched, at_usb, at_ble>>

LoopNext == TudTask \/ UsbRead \/ UsbSkip \/ BleRead \/ BleSkip \/ Cyw43ArchPoll \/ SleepMs

----------------------------------------------------------------------------
(* Specification                                                           *)

\* the state when the loop of main is first entered: init_relays has run on
\* whatever levels the pins had, nothing is mounted, connected or received
Init ==
    /\ relay_states = AllOff
    /\ \E g \in [Pins -> BOOLEAN] : gpio = init_relays(g)
    /\ calls = <<>>
    /\ writes = <<>>
    /\ log = <<>>
    /\ call = NoCall
    /\ prior_states = AllOff
    /\ pc = "tud_task"
    /\ usb_mounted = FALSE
    /\ ble_connected = FALSE
    /\ usb_pending = 0
    /\ ble_pending = 0
    /\ nread = 0
    /\ ble_packet = NoBuffer
    /\ iter_start = AllOff
    /\ dispatched = <<>>
    /\ at_usb = NotChecked
    /\ at_ble = NotChecked

\* set_relay called directly; the traces run on from call to call
SetRelayCall(relay_num, state) ==
    /\ Len(calls) < MaxCalls
    /\ LET m == set_relay(Machine(relay_states, gpio, calls, writes, log),
                          relay_num, state)
       IN  /\ relay_states' = m.relay_states
           /\ gpio' = m.gpio
           /\ calls' = m.calls
           /\ writes' = m.writes
           /\ log' = m.log
    /\ call' = [fn |-> "set_relay", relay_num |-> relay_num, state |-> state]
    /\ prior_states' = relay_states
    /\ UNCHANGED loop_vars

RelayNext == \E relay_num \in RelayNumArgs, state \in BOOLEAN : SetRelayCall(relay_num, state)

RelaySpec == Init /\ [][RelayNext]_vars

\* one message handed to process_midi_message, with the traces empty
ProcessMidiMessage(status, data1, data2, from_bluetooth) ==
    /\ LET m == process_midi_message(Machine(relay_states, gpio, <<>>, <<>>, <<>>),
                                     status, data1, data2, from_bluetooth)
       IN  /\ relay_states' = m.relay_states
           /\ gpio' = m.gpio
           /\ calls' = m.calls
           /\ writes' = m.writes
           /\ log' = m.log
    /\ call' = [fn |-> "process_midi_message", status |-> status, data1 |-> data1,
                data2 |-> data2, from_bluetooth |-> from_bluetooth]
    /\ prior_states' = relay_states
    /\ UNCHANGED loop_vars

\* between two messages the traces of the finished one are dropped; the program
\* state (relay_states, gpio) stays
Forget ==
    /\ call # NoCall
    /\ calls' = <<>>
    /\ writes' = <<>>
    /\ log' = <<>>
    /\ call' = NoCall
    /\ prior_states' = relay_states
    /\ UNCHANGED <<relay_states, gpio, loop_vars>>

Dispatch ==
    /\ call = NoCall
    /\ \E status \in StatusValues, data1 \in Data1Values, data2 \in Data2Values,
          from_bluetooth \in BOOLEAN :
           ProcessMidiMessage(status, data1, data2, from_bluetooth)

Next == Dispatch \/ Forget

Spec == Init /\ [][Next]_vars

\* main from the first iteration of its loop on
LoopSpec == Init /\ [][LoopNext]_vars

\* the loop is the only thread of the program and always takes its next step;
\* nothing is assumed of the transports
FairLoopSpec == LoopSpec /\ WF_vars(LoopNext)

----------------------------------------------------------------------------
(* Vocabulary of the properties                                            *)

IsMessage == call.fn = "process_midi_message"

IsSetRelay == call.fn = "set_relay"

\* the high nibble of the status byte of the message processed last
StatusNibble == call.status \div 16

AllRelays == 0..3

OthersUnchanged(k) == \A i \in AllRelays \ {k} : relay_states[i] = prior_states[i]

MappedNotes == 60..63

\* the number of traced set_relay calls whose relay number is in 1..4
ValidCalls == Cardinality({i \in DOMAIN calls : calls[i][1] \in 1..4})

\* this step is a set_relay call
CallStep == Len(calls') = Len(calls) + 1

CalledNum == calls'[Len(calls')][1]

CalledState == calls'[Len(calls')][2]

----------------------------------------------------------------------------
(* Properties of process_midi_message, under Spec                          *)

\* C1: after a Program Change (status 0xC_) with data1 in 0..3, whatever the
\* relays were before, relay data1+1 is on and the other three are off.
C1_ProgramSelectsExactlyOne ==
    (IsMessage /\ StatusNibble = 12 /\ call.data1 \in 0..3)
        => \A i \in AllRelays : relay_states[i] = (i = call.data1)

C1_Witness ==
    /\ IsMessage /\ StatusNibble = 12 /\ call.data1 = 2
    /\ \A i \in AllRelays : prior_states[i]
    /\ relay_states = [i \in AllRelays |-> i = 2]

\* C2: after a Program Change with data1 outside 0..3, whatever the relays were
\* before, all four relays are off.
C2_ProgramOtherAllOff ==
    (IsMessage /\ StatusNibble = 12 /\ call.data1 \notin 0..3)
        => \A i \in AllRelays : ~relay_states[i]

C2_Witness ==
    /\ IsMessage /\ StatusNibble = 12 /\ call.data1 = 9
    /\ prior_states[0] /\ prior_states[3]
    /\ \A i \in AllRelays : ~relay_states[i]

\* C3: a Note On (status 0x9_) with velocity > 0 on note 60..63 turns relay
\* note-59 on and leaves the other three as they were; on any other note it
\* changes no relay and writes no pin.
C3_NoteOnTurnsMappedRelayOn ==
    (IsMessage /\ StatusNibble = 9 /\ call.data2 > 0)
        => IF call.data1 \in MappedNotes
           THEN /\ relay_states[call.data1 - 60]
                /\ OthersUnchanged(call.data1 - 60)
           ELSE /\ relay_states = prior_states
                /\ writes = <<>>

C3_Witness ==
    /\ IsMessage /\ StatusNibble = 9 /\ call.data2 = 127 /\ call.data1 = 61
    /\ ~prior_states[1] /\ prior_states[3]
    /\ relay_states[1] /\ relay_states[3] /\ ~relay_states[0] /\ ~relay_states[2]

\* C4: a Note On with velocity 0 and a Note Off (status 0x8_) with any velocity
\* have the same effect, a function of the note and the prior state alone: on
\* note 60..63 relay note-59 is turned off by one write of FALSE to its pin and
\* the others stay; on any other note nothing changes and no pin is written.
C4_NoteOnZeroIsNoteOff ==
    (IsMessage /\ (StatusNibble = 8 \/ (StatusNibble = 9 /\ call.data2 = 0)))
        => IF call.data1 \in MappedNotes
           THEN /\ ~relay_states[call.data1 - 60]
                /\ OthersUnchanged(call.data1 - 60)
                /\ writes = << <<call.data1 - 44, FALSE>> >>
           ELSE /\ relay_states = prior_states
                /\ writes = <<>>

C4_Witness ==
    /\ IsMessage /\ StatusNibble = 9 /\ call.data2 = 0 /\ call.data1 = 62
    /\ prior_states[2] /\ prior_states[0]
    /\ ~relay_states[2] /\ relay_states[0]
    /\ writes = << <<18, FALSE>> >>

\* C5: a Control Change (status 0xB_) acts on a relay exactly when data1 is in
\* 1..4: then relay data1 is on iff data2 >= 64, the other relays stay and the
\* relay's pin is written once; otherwise no relay changes and no pin is written.
C5_ControlChangeThreshold ==
    (IsMessage /\ StatusNibble = 11)
        => IF call.data1 \in 1..4
           THEN /\ relay_states[call.data1 - 1] = (call.data2 >= 64)
                /\ OthersUnchanged(call.data1 - 1)
                /\ Len(writes) = 1
           ELSE /\ relay_states = prior_states
                /\ writes = <<>>

C5_Witness ==
    /\ IsMessage /\ StatusNibble = 11 /\ call.data1 = 2 /\ call.data2 = 64
    /\ ~prior_states[1] /\ prior_states[2]
    /\ relay_states[1] /\ relay_states[2]

\* C6: a message whose status high nibble is none of 0x8, 0x9, 0xB, 0xC (status
\* bytes below 0x80 included) leaves the four relays as they were, calls
\* set_relay not at all and writes no pin.
C6_UnknownStatusNoEffect ==
    (IsMessage /\ StatusNibble \notin {8, 9, 11, 12})
        => /\ relay_states = prior_states
           /\ writes = <<>>
           /\ calls = <<>>

C6_Witness ==
    /\ IsMessage /\ call.status < 128 /\ call.data1 = 60 /\ call.data2 = 127
    /\ prior_states[1] /\ ~prior_states[0]
    /\ relay_states = prior_states
    /\ writes = <<>>

----------------------------------------------------------------------------
(* Properties of set_relay, under RelaySpec                                *)

\* C7: after set_relay(id, on) with id in 1..4, entry id-1 of relay_states is on,
\* the other three entries are as before, and the call wrote on to the pin of
\* relay id, GPIO 15+id (one write per valid call, this one the last).
C7_SetRelayStoresAndWrites ==
    (IsSetRelay /\ call.relay_num \in 1..4)
        => /\ relay_states[call.relay_num - 1] = call.state
           /\ OthersUnchanged(call.relay_num - 1)
           /\ Len(writes) = ValidCalls
           /\ writes[Len(writes)] = <<15 + call.relay_num, call.state>>
           /\ gpio[15 + call.relay_num] = call.state

C7_Witness ==
    /\ IsSetRelay /\ call.relay_num = 3 /\ call.state
    /\ prior_states[0] /\ ~prior_states[2]
    /\ relay_states[2] /\ relay_states[0]
    /\ writes[Len(writes)] = <<18, TRUE>>

\* C8: a set_relay call with a relay number outside 1..4 leaves relay_states
\* and the pins as they are and writes no pin.
C8_InvalidIdNoOp ==
    [][(CallStep /\ CalledNum \notin 1..4)
          => /\ relay_states' = relay_states
             /\ gpio' = gpio
             /\ writes' = writes]_vars

C8_Witness ==
    /\ IsSetRelay /\ call.relay_num = 5 /\ call.state
    /\ Len(calls) = 3 /\ calls[2] = <<0, TRUE>> /\ calls[3] = <<5, TRUE>>
    /\ relay_states = [i \in AllRelays |-> i = 1]
    /\ Len(writes) = 1

C10_RedundantCallStillWrites ==
    [][(CallStep /\ CalledNum \in 1..4)
          => /\ Len(writes') = Len(writes) + 1
             /\ writes'[Len(writes')] = <<15 + CalledNum, CalledState>>
             /\ SubSeq(writes', 1, Len(writes)) = writes
             /\ relay_states'[CalledNum - 1] = CalledState
             /\ (Len(calls) >= 1 /\ calls[Len(calls)] = <<CalledNum, CalledState>>)
                   => /\ Len(writes) >= 1
                      /\ writes[Len(writes)] = writes'[Len(writes')]
                      /\ relay_states[CalledNum - 1] = CalledState]_vars

C10_Witness ==
    /\ Len(calls) = 2 /\ calls[1] = <<1, TRUE>> /\ calls[2] = <<1, TRUE>>
    /\ writes = << <<16, TRUE>>, <<16, TRUE>> >>
    /\ relay_states[0]

----------------------------------------------------------------------------
(* Vocabulary of the properties of the loop                                *)

Positions == {"tud_task", "usb", "ble", "cyw43_arch_poll", "sleep_ms"}

\* the messages dispatched in the current iteration that came from one transport
FromUsb == {i \in DOMAIN dispatched : ~dispatched[i].from_bluetooth}

FromBle == {i \in DOMAIN dispatched : dispatched[i].from_bluetooth}

\* a transport had a message to give when its check ran
UsbHadMessage == at_usb.checked /\ at_usb.ready /\ at_usb.pending >= 1

BleHadMessage == at_ble.checked /\ at_ble.ready /\ at_ble.pending >= 1

\* both checks of the current iteration have run
BothChecked == at_usb.checked /\ at_ble.checked

GpioOf(rs) == [p \in Pins |-> rs[p - 16]]

\* what processing message d on the relay array rs gives
Processed(rs, d) ==
    process_midi_message(Machine(rs, GpioOf(rs), <<>>, <<>>, <<>>),
                         d.status, d.data1, d.data2, d.from_bluetooth)

----------------------------------------------------------------------------
(* Properties of the loop of main, under LoopSpec                          *)

\* C11: in an iteration whose USB check finds the device mounted with a packet
\* waiting and whose Bluetooth check finds a session with a frame waiting,
\* exactly two messages are dispatched, one from each transport, one packet and
\* one frame are taken, and from the Bluetooth check to the end of the iteration
\* the relays hold the effect of both messages on the state the iteration
\* started with.
C11_OneFromEachTransport ==
    (BothChecked /\ UsbHadMessage /\ BleHadMessage)
        => /\ Len(dispatched) = 2
           /\ Cardinality(FromUsb) = 1
           /\ Cardinality(FromBle) = 1
           /\ usb_pending = at_usb.pending - 1
           /\ pc = "cyw43_arch_poll" => ble_pending = at_ble.pending - 1
           /\ relay_states =
                 Processed(Processed(iter_start, dispatched[1]).relay_states,
                           dispatched[2]).relay_states

C11_Witness ==
    /\ pc = "sleep_ms"
    /\ at_usb = Checked(TRUE, 1) /\ at_ble = Checked(TRUE, 1)
    /\ Len(dispatched) = 2
    /\ dispatched[1].status = 176 /\ ~dispatched[1].from_bluetooth
    /\ dispatched[2].status = 192 /\ dispatched[2].from_bluetooth
    /\ iter_start = [i \in AllRelays |-> i = 2]
    /\ relay_states = [i \in AllRelays |-> i = 3]

\* C13: in one iteration at most one message from USB and at most one from
\* Bluetooth is dispatched, and each check takes at most one packet (frame)
\* from those waiting, however many wait.
C13_AtMostOnePerTransport ==
    /\ Cardinality(FromUsb) <= 1
    /\ Cardinality(FromBle) <= 1
    /\ at_usb.checked => usb_pending >= at_usb.pending - 1
    /\ at_ble.checked => ble_pending >= at_ble.pending - 1

C13_Witness ==
    /\ pc = "sleep_ms"
    /\ at_usb = Checked(TRUE, 2) /\ usb_pending = 1
    /\ at_ble = Checked(TRUE, 2)
    /\ Cardinality(FromUsb) = 1 /\ Cardinality(FromBle) = 1

\* C14: the loop stays in its body and goes round for ever, whatever arrives:
\* every position of the body is reached again and again.
C14_LoopNeverHalts ==
    /\ [](pc \in Positions)
    /\ \A position \in Positions : []<>(pc = position)

C14_Witness ==
    /\ pc = "tud_task"
    /\ Len(dispatched) = 2
    /\ dispatched[1].status = 248
    /\ dispatched[2].status = 144 /\ dispatched[2].data1 = 0
    /\ calls = <<>>

\* C15: when a check finds its transport not mounted (not connected) or with
\* nothing to read, no message of that transport is dispatched in the iteration
\* and nothing is taken from it; when this holds for both checks no set_relay
\* call and no write is made and the relays are as the iteration found them.
C15_NothingToReadNoDispatch ==
    /\ (at_usb.checked /\ ~UsbHadMessage)
          => FromUsb = {} /\ usb_pending = at_usb.pending
    /\ (at_ble.checked /\ ~BleHadMessage)
          => FromBle = {} /\ nread = 0 /\ ble_pending >= at_ble.pending
    /\ (BothChecked /\ ~UsbHadMessage /\ ~BleHadMessage)
          => /\ relay_states = iter_start
             /\ gpio = GpioOf(iter_start)
             /\ calls = <<>>
             /\ writes = <<>>

C15_Witness ==
    /\ pc = "sleep_ms"
    /\ at_usb = Checked(FALSE, 2)
    /\ at_ble = Checked(TRUE, 0)
    /\ iter_start = [i \in AllRelays |-> i = 0]
    /\ relay_states = iter_start
    /\ dispatched = <<>>

\* C16: a Bluetooth frame of nread bytes (1..3) is dispatched as ble_packet[0],
\* then ble_packet[1] if nread >= 2 and 0 otherwise, then ble_packet[2] if
\* nread = 3 and 0 otherwise: what the buffer holds beyond the frame is not used.
C16_BleFrameZeroPadded ==
    nread > 0
        => /\ nread \in 1..3
           /\ Cardinality(FromBle) = 1
           /\ \A i \in FromBle :
                 /\ dispatched[i].status = ble_packet[1]
                 /\ dispatched[i].data1 = (IF nread >= 2 THEN ble_packet[2] ELSE 0)
                 /\ dispatched[i].data2 = (IF nread >= 3 THEN ble_packet[3] ELSE 0)

C16_Witness ==
    /\ nread = 1
    /\ ble_packet = <<144, 60, 127>>
    /\ dispatched = <<[status |-> 144, data1 |-> 0, data2 |-> 0,
                       from_bluetooth |-> TRUE, first |-> 1, last |-> 0]>>
    /\ relay_states = AllOff

\* C18: the set_relay calls of an iteration are those of its first dispatched
\* message, all of them and in order, followed by those of its second: no call
\* of one message falls among the calls of another.  (The trace starts anew with
\* each iteration, so the calls of two iterations cannot mix.)
C18_EventsNotInterleaved ==
    /\ \A i \in DOMAIN dispatched :
          /\ dispatched[i].first = (IF i = 1 THEN 1 ELSE dispatched[i - 1].last + 1)
          /\ dispatched[i].last <= Len(calls)
          /\ SubSeq(calls, dispatched[i].first, dispatched[i].last)
                = Processed(AllOff, dispatched[i]).calls
    /\ dispatched # <<>> => dispatched[Len(dispatched)].last = Len(calls)
    /\ dispatched = <<>> => calls = <<>>

C18_Witness ==
    /\ Len(dispatched) = 2
    /\ dispatched[1].status = 193 /\ dispatched[1].first = 1 /\ dispatched[1].last = 5
    /\ dispatched[2].status = 192 /\ dispatched[2].first = 6 /\ dispatched[2].last = 10
    /\ calls[5] = <<3, TRUE>> /\ calls[6] = <<1, FALSE>> /\ calls[10] = <<4, TRUE>>

\* C19: when the loop is first entered and after every message processed in it,
\* the level of each relay pin equals the entry of relay_states for its relay;
\* all four are off when the loop is first entered (no check has run yet).
C19_PinsFollowRelayStates ==
    /\ \A i \in AllRelays : gpio[16 + i] = relay_states[i]
    /\ (pc = "tud_task" /\ ~at_usb.checked)
          => /\ relay_states = AllOff
             /\ \A p \in Pins : ~gpio[p]

C19_Witness ==
    /\ Len(dispatched) = 2
    /\ relay_states = [i \in AllRelays |-> i \in {1, 3}]
    /\ gpio = [p \in Pins |-> p \in {17, 19}]
    /\ iter_start = [i \in AllRelays |-> i = 3]
    /\ writes = << <<17, TRUE>> >>

----------------------------------------------------------------------------
(* Further properties of process_midi_message, under Spec                  *)

\* C12: the relay state and the writes a message produces do not depend on its
\* channel or on the transport it came from: the same high nibble, data1 and
\* data2 on any of the 16 channels, from USB or Bluetooth, applied to the same
\* prior state, give the relay state and the write sequence the message on
\* channel 1 from USB gave.
C12_ChannelAndSourceIgnored ==
    (IsMessage /\ call.status % 16 = 0 /\ ~call.from_bluetooth)
        => \A channel \in 0..15, from_bluetooth \in BOOLEAN :
              LET other == Processed(prior_states,
                                     [status |-> call.status + channel,
                                      data1 |-> call.data1, data2 |-> call.data2,
                                      from_bluetooth |-> from_bluetooth])
              IN  /\ other.relay_states = relay_states
                  /\ other.writes = writes

C12_Witness ==
    /\ IsMessage /\ call.status = 176 /\ ~call.from_bluetooth
    /\ call.data1 = 3 /\ call.data2 = 127
    /\ prior_states = [i \in AllRelays |-> i = 0]
    /\ relay_states = [i \in AllRelays |-> i \in {0, 2}]
    /\ Processed(prior_states, [status |-> 185, data1 |-> 3, data2 |-> 127,
                                from_bluetooth |-> TRUE]).writes = writes
    /\ writes = << <<18, TRUE>> >>

\* C17: a Program Change calls set_relay(1, false), set_relay(2, false),
\* set_relay(3, false), set_relay(4, false) in this order whatever the relays
\* are; for data1 in 0..3 one call set_relay(data1+1, true) follows, for any
\* other data1 none does; each call writes its pin.
C17_ProgramChangeCallOrder ==
    (IsMessage /\ StatusNibble = 12)
        => /\ calls = << <<1, FALSE>>, <<2, FALSE>>, <<3, FALSE>>, <<4, FALSE>> >>
                      \o (IF call.data1 \in 0..3
                          THEN << <<call.data1 + 1, TRUE>> >> ELSE <<>>)
           /\ writes = << <<16, FALSE>>, <<17, FALSE>>, <<18, FALSE>>, <<19, FALSE>> >>
                       \o (IF call.data1 \in 0..3
                           THEN << <<call.data1 + 16, TRUE>> >> ELSE <<>>)

C17_Witness ==
    /\ IsMessage /\ StatusNibble = 12 /\ call.data1 = 2
    /\ prior_states = [i \in AllRelays |-> i = 2]
    /\ Len(calls) = 5 /\ calls[3] = <<3, FALSE>> /\ calls[5] = <<3, TRUE>>
    /\ relay_states = prior_states

\* C20: every set_relay call made while a message is processed has a relay
\* number in 1..4.
C20_MessageCallsHaveValidId ==
    IsMessage => \A i \in DOMAIN calls : calls[i][1] \in 1..4

C20_Witness ==
    /\ IsMessage /\ StatusNibble = 11 /\ call.data1 = 4 /\ call.data2 = 255
    /\ calls = << <<4, TRUE>> >>

----------------------------------------------------------------------------
(* Order of the two checks, under LoopSpec                                 *)

\* the calls of the i-th dispatched message that set relay n (places in calls)
SetsOf(i, n) ==
    {j \in dispatched[i].first..dispatched[i].last : calls[j][1] = n}

Latest(places) == CHOOSE j \in places : \A k \in places : k <= j

\* C21: in an iteration the USB check runs before the Bluetooth check, so a USB
\* message is dispatched before a Bluetooth one; when both set the same relay
\* and leave it at different values, the relay ends the iteration with the
\* value the Bluetooth message set.
C21_UsbBeforeBluetooth ==
    /\ at_ble.checked => at_usb.checked
    /\ \A i, j \in DOMAIN dispatched :
          (dispatched[i].from_bluetooth /\ ~dispatched[j].from_bluetooth) => j < i
    /\ (Cardinality(FromUsb) = 1 /\ Cardinality(FromBle) = 1)
          => \A n \in 1..4 :
                \A u \in FromUsb, b \in FromBle :
                   (/\ SetsOf(u, n) # {}
                    /\ SetsOf(b, n) # {}
                    /\ calls[Latest(SetsOf(u, n))][2] # calls[Latest(SetsOf(b, n))][2])
                      => /\ relay_states[n - 1] = calls[Latest(SetsOf(b, n))][2]
                         /\ gpio[15 + n] = calls[Latest(SetsOf(b, n))][2]

C21_Witness ==
    /\ pc = "sleep_ms"
    /\ Len(dispatched) = 2
    /\ ~dispatched[1].from_bluetooth
    /\ dispatched[1].status = 176 /\ dispatched[1].data1 = 1 /\ dispatched[1].data2 = 127
    /\ dispatched[2].from_bluetooth
    /\ dispatched[2].status = 176 /\ dispatched[2].data1 = 1 /\ dispatched[2].data2 = 0
    /\ calls = << <<1, TRUE>>, <<1, FALSE>> >>
    /\ ~relay_states[0]

====
